---- MODULE Spec2Model ----
(***************************************************************************)
(* Model of streamlit/app/app.py: the data-exploration dashboard.          *)
(*                                                                         *)
(* The script is re-run top to bottom on every user interaction.  One run  *)
(* (a render cycle) is main(): resolve credentials, obtain the cached      *)
(* engine, draw the sidebar, probe connectivity, list tables, preview one  *)
(* table, preview one dataset file, run the ad-hoc query box.              *)
(*                                                                         *)
(* Four specifications are given over the same variables:                 *)
(*   Spec      the render cycles of main() against a changing database,    *)
(*   SpecEnv   start-up configuration, credentials and the engine cache,   *)
(*   SpecFiles list_datasets over bounded directory trees,                 *)
(*   SpecPreview fetch_preview over every slider limit and table size.     *)
(***************************************************************************)
EXTENDS Integers, Sequences, FiniteSets, TLC

VARIABLES
    environ,          \* os.environ: a partial map from variable name to value
    dotenv,           \* the three candidate .env files, nearest first
    creds,            \* the record get_db_credentials last returned
    url,              \* the connection string last built
    engines,          \* st.cache_resource store of get_engine_cached: url -> handle
    engineLog,        \* the urls create_engine was called with, in order
    engine,           \* main's local: the handle in use (0 before any)
    clock,            \* seconds since process start
    db,               \* the MySQL schema: table -> number of rows, Absent if none
    tablesCache,      \* st.cache_data store of get_tables: handle -> entry
    previewCache,     \* st.cache_data store of fetch_preview: <<handle, table, limit>> -> entry
    checkedOut,       \* connections checked out of the pool and not yet released
    pc,               \* position of the running script in main()
    status,           \* how the last render cycle ended, "running" while it runs
    shown,            \* the elements drawn so far in this cycle, in order
    queries,          \* the statements sent to the database in this cycle, in order
    raised,           \* the operations that raised in this cycle
    tables,           \* main's local: the table names get_tables returned
    preview,          \* main's local: the rows fetch_preview returned
    selected_dataset, \* main's local: the path chosen in the sidebar, None if none
    selected_table,   \* main's local: the table chosen in the select box
    limit,            \* main's local: the value of the row-limit slider
    reader,           \* the pandas reader render_dataset_preview used in this cycle
    datasetDirExists, \* whether the dataset directory exists
    fs,               \* the entries below the dataset directory
    listing           \* the sequence list_datasets last returned

vars == <<environ, dotenv, creds, url, engines, engineLog, engine, clock, db,
          tablesCache, previewCache, checkedOut, pc, status, shown, queries, raised,
          tables, preview, selected_dataset, selected_table, limit, reader,
          datasetDirExists, fs, listing>>

envVars == <<environ, dotenv, creds, url>>
engineVars == <<engines, engineLog, engine>>
dbVars == <<clock, db, tablesCache, previewCache, checkedOut>>
pageVars == <<pc, status, shown, queries, raised, tables, preview, selected_dataset,
              selected_table, limit, reader>>
fileVars == <<datasetDirExists, fs, listing>>

(***************************************************************************)
(* Generic helpers.                                                        *)
(***************************************************************************)
Min(a, b) == IF a <= b THEN a ELSE b

Range(s) == {s[i] : i \in DOMAIN s}

IsPrefix(s, t) == Len(s) <= Len(t) /\ SubSeq(t, 1, Len(s)) = s

EmptyMap == [k \in {} |-> ""]

(***************************************************************************)
(* Configuration: _load_local_env, get_db_credentials, build_connection_url*)
(***************************************************************************)
EnvNames == {"MYSQL_HOST", "MYSQL_PORT", "MYSQL_DATABASE", "MYSQL_USER", "MYSQL_PASSWORD"}

\* load_dotenv(path, override): every variable of the file is set, except that
\* without override a variable already in the environment keeps its value.
load_dotenv(env, fileVarsMap, override) ==
    [k \in (DOMAIN env) \cup (DOMAIN fileVarsMap) |->
        IF k \in DOMAIN env /\ (~override \/ k \notin DOMAIN fileVarsMap)
        THEN env[k]
        ELSE fileVarsMap[k]]

\* The for loop of _load_local_env from candidate i on: the first candidate that
\* exists is loaded and the loop breaks.
RECURSIVE LoadFrom(_, _, _)
LoadFrom(env, candidates, i) ==
    IF i > Len(candidates) THEN env
    ELSE IF candidates[i].exists
         THEN load_dotenv(env, candidates[i].vars, FALSE)
         ELSE LoadFrom(env, candidates, i + 1)

load_local_env(env, candidates) == LoadFrom(env, candidates, 1)

\* os.getenv(name, default)
getenv(env, name, default) == IF name \in DOMAIN env THEN env[name] ELSE default

\* The mutant: another default user.
get_db_credentials_swapped(env) ==
    [host     |-> getenv(env, "MYSQL_HOST", "mysql"),
     port     |-> getenv(env, "MYSQL_PORT", "3306"),
     database |-> getenv(env, "MYSQL_DATABASE", "curso"),
     user     |-> getenv(env, "MYSQL_USER", "root"),
     password |-> getenv(env, "MYSQL_PASSWORD", "")]

get_db_credentials(env) ==
    [host     |-> getenv(env, "MYSQL_HOST", "mysql"),
     port     |-> getenv(env, "MYSQL_PORT", "3306"),
     database |-> getenv(env, "MYSQL_DATABASE", "curso"),
     user     |-> getenv(env, "MYSQL_USER", "alumno"),
     password |-> getenv(env, "MYSQL_PASSWORD", "")]

build_connection_url(c) ==
    "mysql+pymysql://" \o c.user \o ":" \o c.password
        \o "@" \o c.host \o ":" \o c.port \o "/" \o c.database

NoCreds == [host |-> "", port |-> "", database |-> "", user |-> "", password |-> ""]

(***************************************************************************)
(* get_engine_cached: st.cache_resource keeps one value per argument for   *)
(* the life of the process (no ttl, no max_entries, never cleared by the   *)
(* script); the function body runs only on a miss.                         *)
(***************************************************************************)
\* create_engine returns a new Engine object: handles are numbered in creation order.
create_engine(log) == Len(log) + 1

\* The mutant: the decorator dropped, every call builds a new engine.
get_engine_uncached(store, log, u) ==
    [store  |-> [k \in (DOMAIN store) \cup {u} |->
                    IF k = u THEN create_engine(log) ELSE store[k]],
     log    |-> Append(log, u),
     handle |-> create_engine(log)]

\* The call get_engine_cached(u) on the store: the store and the creation log
\* after it, and the handle returned.
get_engine_cached(store, log, u) ==
    IF u \in DOMAIN store
    THEN [store |-> store, log |-> log, handle |-> store[u]]
    ELSE [store  |-> [k \in (DOMAIN store) \cup {u} |->
                        IF k = u THEN create_engine(log) ELSE store[k]],
          log    |-> Append(log, u),
          handle |-> create_engine(log)]

(***************************************************************************)
(* list_datasets.  A file name is a sequence of characters and a path a    *)
(* sequence of names below the dataset directory, so that suffix, lower    *)
(* and the ordering of paths are computed and not assumed.                 *)
(***************************************************************************)
\* The characters in use, in code-point order.
CharOrder == <<".", "C", "D", "F", "P", "S", "V",
               "a", "b", "c", "e", "p", "q", "r", "s", "t", "u", "v", "x">>

Ord(c) == CHOOSE i \in DOMAIN CharOrder : CharOrder[i] = c

\* str.lower() on one character
LowerChar(c) ==
    CASE c = "C" -> "c" [] c = "D" -> "d" [] c = "F" -> "f" [] c = "P" -> "p"
      [] c = "S" -> "s" [] c = "V" -> "v" [] OTHER -> c

lower(name) == [i \in DOMAIN name |-> LowerChar(name[i])]

\* str.rfind("."), 1-based, 0 when there is none
rfind_dot(name) ==
    IF \E i \in DOMAIN name : name[i] = "."
    THEN CHOOSE i \in DOMAIN name :
            name[i] = "." /\ \A j \in DOMAIN name : name[j] = "." => j <= i
    ELSE 0

\* PurePath.suffix: the last dot and what follows, unless the dot leads or ends the name
suffix(name) ==
    LET i == rfind_dot(name)
    IN  IF 1 < i /\ i < Len(name) THEN SubSeq(name, i, Len(name)) ELSE <<>>

\* The mutant: the suffix compared without lower().
HasDatasetSuffix_cased(name) ==
    suffix(name) \in {<<".", "c", "s", "v">>, <<".", "p", "a", "r", "q", "u", "e", "t">>}

\* path.suffix.lower() in {".csv", ".parquet"}
HasDatasetSuffix(name) ==
    lower(suffix(name)) \in {<<".", "c", "s", "v">>, <<".", "p", "a", "r", "q", "u", "e", "t">>}

\* str.__lt__: by code point, a proper prefix first
RECURSIVE StrLess(_, _)
StrLess(a, b) ==
    IF b = <<>> THEN FALSE
    ELSE IF a = <<>> THEN TRUE
    ELSE IF Head(a) = Head(b) THEN StrLess(Tail(a), Tail(b))
    ELSE Ord(Head(a)) < Ord(Head(b))

\* PurePath.__lt__: the sequences of path components, compared component by component
RECURSIVE PathLess(_, _)
PathLess(p, q) ==
    IF q = <<>> THEN FALSE
    ELSE IF p = <<>> THEN TRUE
    ELSE IF Head(p) = Head(q) THEN PathLess(Tail(p), Tail(q))
    ELSE StrLess(Head(p), Head(q))

\* sorted(): insertion of x into a sorted sequence, then of every element in turn
RECURSIVE InsertSorted(_, _)
InsertSorted(x, s) ==
    IF s = <<>> THEN <<x>>
    ELSE IF PathLess(x, Head(s)) THEN <<x>> \o s
    ELSE <<Head(s)>> \o InsertSorted(x, Tail(s))

RECURSIVE sorted(_)
sorted(s) == IF s = <<>> THEN <<>> ELSE InsertSorted(Head(s), sorted(Tail(s)))

\* dataset_path.glob("**/*"): every entry below the directory, each once, in the
\* order the directory scan happens to produce.
RECURSIVE glob_all(_)
glob_all(entries) ==
    IF entries = {} THEN <<>>
    ELSE LET e == CHOOSE x \in entries : TRUE
         IN  <<e>> \o glob_all(entries \ {e})

IsDataset(e) == e.kind = "file" /\ HasDatasetSuffix(e.path[Len(e.path)])

RECURSIVE PathsOf(_)
PathsOf(s) == IF s = <<>> THEN <<>> ELSE <<Head(s).path>> \o PathsOf(Tail(s))

list_datasets(exists, entries) ==
    IF ~exists THEN <<>>
    ELSE sorted(PathsOf(SelectSeq(glob_all(entries), IsDataset)))

\* The directory trees the model draws from.
n_hidden  == <<".", "c", "s", "v">>
n_DCSV    == <<"D", ".", "C", "S", "V">>
n_acsv    == <<"a", ".", "c", "s", "v">>
n_bparq   == <<"b", ".", "p", "a", "r", "q", "u", "e", "t">>
n_ctxt    == <<"c", ".", "t", "x", "t">>
n_ecsv    == <<"e", ".", "c", "s", "v">>
n_sub     == <<"s", "u", "b">>
n_FParq   == <<"F", ".", "P", "a", "r", "q", "u", "e", "t">>

FsUniverse ==
    { [path |-> <<n_hidden>>,       kind |-> "file"],
      [path |-> <<n_DCSV>>,         kind |-> "file"],
      [path |-> <<n_acsv>>,         kind |-> "file"],
      [path |-> <<n_bparq>>,        kind |-> "file"],
      [path |-> <<n_ctxt>>,         kind |-> "file"],
      [path |-> <<n_ecsv>>,         kind |-> "dir"],
      [path |-> <<n_sub>>,          kind |-> "dir"],
      [path |-> <<n_sub, n_acsv>>,  kind |-> "file"],
      [path |-> <<n_sub, n_FParq>>, kind |-> "file"] }

\* An entry below a sub-directory needs the sub-directory.
ParentClosed(entries) ==
    \A e \in entries : Len(e.path) > 1 =>
        [path |-> SubSeq(e.path, 1, Len(e.path) - 1), kind |-> "dir"] \in entries

FsChoices == {S \in SUBSET FsUniverse : ParentClosed(S)}

None == <<>>

(***************************************************************************)
(* The database, as the calls of the script see it.                        *)
(***************************************************************************)
TableOrder == <<"alumnos", "cursos">>

TableNames == Range(TableOrder)

ShowTablesSql == "SHOW TABLES"

\* fetch_preview's statement: the table name is formatted into the text
\* (the source's backquotes around it are written ' here).
PreviewSql(t) == "SELECT * FROM '" \o t \o "' LIMIT :limit"

\* render_sql_playground's default_query.format(table=...)
PlaygroundSql(t) == "SELECT * FROM '" \o t \o "' LIMIT 50"

Statement(sql, params) == [sql |-> sql, params |-> params]

NoParams == [k \in {} |-> 0]

Rows(n) == [i \in 1..n |-> i]

Failed == [ok |-> FALSE, rows |-> <<>>]

\* What MySQL answers to one statement on schema d.  SHOW TABLES lists the tables
\* in name order; LIMIT n yields the first min(n, N) rows; a statement MySQL
\* cannot parse, or on a table that does not exist, is an error.
Execute(d, q) ==
    IF q.sql = ShowTablesSql
    THEN [ok |-> TRUE, rows |-> SelectSeq(TableOrder, LAMBDA t : t \in DOMAIN d)]
    ELSE IF q.sql \in {"SELECT DATABASE()", "SELECT VERSION()", "SELECT 1"}
    THEN [ok |-> TRUE, rows |-> Rows(1)]
    ELSE IF \E t \in TableNames : q.sql = PreviewSql(t)
    THEN LET t == CHOOSE t \in TableNames : q.sql = PreviewSql(t)
         IN  IF t \in DOMAIN d /\ "limit" \in DOMAIN q.params
             THEN [ok |-> TRUE, rows |-> Rows(Min(q.params["limit"], d[t]))]
             ELSE Failed
    ELSE IF \E t \in TableNames : q.sql = PlaygroundSql(t)
    THEN LET t == CHOOSE t \in TableNames : q.sql = PlaygroundSql(t)
         IN  IF t \in DOMAIN d
             THEN [ok |-> TRUE, rows |-> Rows(Min(50, d[t]))]
             ELSE Failed
    ELSE Failed

\* How one database call goes: the pool gives no connection (the server is
\* unreachable), the server fails the statement, or the statement is run.
Outcomes == {"ok", "connect_error", "exec_error"}

\* `with engine.connect() as connection: connection.execute(q)` under outcome o:
\* whether it returned, the rows, and the statements that reached the server.
\* Every failure is raised as an SQLAlchemyError.
run(d, q, o) ==
    IF o = "connect_error" THEN [ok |-> FALSE, rows |-> <<>>, sent |-> <<>>]
    ELSE IF o = "exec_error" THEN [ok |-> FALSE, rows |-> <<>>, sent |-> <<q>>]
    ELSE [ok |-> Execute(d, q).ok, rows |-> Execute(d, q).rows, sent |-> <<q>>]

\* The mutant: the connection is closed on the success path only.
WithConnection_leak(n, o) ==
    IF o = "connect_error" THEN n
    ELSE IF o = "ok" THEN (n + 1) - 1
    ELSE n + 1

\* The pool's checked-out count after a `with engine.connect()` block that started
\* with n: connect() checks one out unless it raises, and the block's exit returns
\* it whether the body returned or raised.
WithConnection(n, o) ==
    IF o = "connect_error" THEN n ELSE (n + 1) - 1

(***************************************************************************)
(* st.cache_data(ttl=60): one entry per argument tuple, live for TTL       *)
(* seconds after it was stored; the function body runs on a miss and its   *)
(* result is stored only if it returns.                                    *)
(***************************************************************************)
\* The mutant: a time to live of 90 seconds.
TTL_long == 60 + 30

TTL == 60

CacheHit(cache, key, now) == key \in DOMAIN cache /\ now < cache[key].at + TTL

\* Storing drops the entries that have expired.
CacheStore(cache, key, value, now) ==
    [k \in {c \in DOMAIN cache : now < cache[c].at + TTL} \cup {key} |->
        IF k = key THEN [value |-> value, at |-> now] ELSE cache[k]]

\* A call of a cached function under key: the value returned (if it returned),
\* the store after it, the statements sent, and the outcome seen by the pool
\* ("none" when the body did not run).
CachedCall(cache, key, now, d, q, o) ==
    IF CacheHit(cache, key, now)
    THEN [ok |-> TRUE, value |-> cache[key].value, cache |-> cache,
          sent |-> <<>>, pool |-> "none"]
    ELSE LET r == run(d, q, o)
         IN  [ok    |-> r.ok,
              value |-> r.rows,
              cache |-> IF r.ok THEN CacheStore(cache, key, r.rows, now) ELSE cache,
              sent  |-> r.sent,
              pool  |-> o]

PoolAfter(n, o) == IF o = "none" THEN n ELSE WithConnection(n, o)

get_tables(cache, h, now, d, o) ==
    CachedCall(cache, h, now, d, Statement(ShowTablesSql, NoParams), o)

\* The mutant: the slider value is not passed on, the default of 100 is.
fetch_preview_default_limit(cache, h, t, l, now, d, o) ==
    CachedCall(cache, <<h, t, l>>, now, d,
               Statement(PreviewSql(t), [k \in {"limit"} |-> 100]), o)

fetch_preview(cache, h, t, l, now, d, o) ==
    CachedCall(cache, <<h, t, l>>, now, d,
               Statement(PreviewSql(t), [k \in {"limit"} |-> l]), o)

(***************************************************************************)
(* The page.  An element is <<kind, section>>, named after the st.* call   *)
(* that draws it and the part of the page it belongs to.                   *)
(***************************************************************************)
El(kind, section) == <<kind, section>>

\* What the except branch of render_connection_status leaves: st.stop() ends the run.
\* The mutant: no st.stop(), the script goes on to the tables.
AfterProbeFailure_nostop == [pc |-> "tables", status |-> "running"]

AfterProbeFailure == [pc |-> "idle", status |-> "halted"]

\* An exception no handler catches ends the run.
Uncaught == [pc |-> "idle", status |-> "crashed"]

\* The reader render_dataset_preview picks for a path.
ReaderFor(path) ==
    IF lower(suffix(path[Len(path)])) = <<".", "c", "s", "v">>
    THEN "read_csv"
    ELSE "read_parquet"

\* The except branch of render_dataset_preview: error, exception, return.
\* The mutant: no handler, the exception leaves main.
AfterReadFailure_uncaught == [els |-> <<>>, pc |-> "idle", status |-> "crashed"]

AfterReadFailure ==
    [els |-> <<El("error", "dataset"), El("exception", "dataset")>>,
     pc |-> "sql", status |-> "running"]

\* The except branch of render_sql_playground: error, exception, and main returns.
\* The mutant: no handler, the exception leaves main.
AfterQueryFailure_uncaught == [els |-> <<>>, status |-> "crashed"]

AfterQueryFailure ==
    [els |-> <<El("error", "sql"), El("exception", "sql")>>, status |-> "complete"]

\* The texts the user may have in the query box: the default, SELECT 1, and one
\* MySQL cannot parse.
QueryTexts(default) == {default, "SELECT 1", "SELEC * FORM alumnos"}

default_query(tbls) == IF tbls # <<>> THEN PlaygroundSql(tbls[1]) ELSE "SELECT 1"

(***************************************************************************)
(* The steps of one run of the script.                                     *)
(***************************************************************************)
\* Lines 19-43: the module body before main(): _load_local_env(), title, caption.
ScriptTop ==
    /\ pc = "idle"
    /\ environ' = load_local_env(environ, dotenv)
    /\ pc' = "main"
    /\ status' = "running"
    /\ shown' = <<El("title", "page"), El("caption", "page")>>
    /\ queries' = <<>>
    /\ raised' = {}
    /\ tables' = <<>>
    /\ preview' = <<>>
    /\ selected_dataset' = None
    /\ selected_table' = ""
    /\ limit' = 0
    /\ reader' = "none"
    /\ UNCHANGED <<dotenv, creds, url, engineVars, dbVars, fileVars>>

\* Lines 179-193: credentials, url, engine, and the sidebar with dataset_selector.
MainStart ==
    /\ pc = "main"
    /\ LET c  == get_db_credentials(environ)
           u  == build_connection_url(c)
           g  == get_engine_cached(engines, engineLog, u)
           ds == list_datasets(datasetDirExists, fs)
       IN  /\ creds' = c
           /\ url' = u
           /\ engines' = g.store
           /\ engineLog' = g.log
           /\ engine' = g.handle
           /\ listing' = ds
           /\ \E sel \in (IF ds = <<>> THEN {None} ELSE Range(ds)) :
                selected_dataset' = sel
           /\ shown' = shown \o <<El("header", "sidebar"), El("write", "sidebar"),
                                  El("caption", "sidebar"), El("subheader", "sidebar"),
                                  IF ds = <<>> THEN El("info", "sidebar")
                                               ELSE El("selectbox", "sidebar")>>
    /\ pc' = "probe"
    /\ UNCHANGED <<environ, dotenv, dbVars, status, queries, raised, tables, preview,
                   selected_table, limit, reader, datasetDirExists, fs>>

\* The probe's two statements on one connection.
ProbeOutcomes == {"ok", "connect_error", "exec_error", "exec_error_2"}

ProbeSent(o) ==
    IF o = "connect_error" THEN <<>>
    ELSE IF o = "exec_error" THEN <<Statement("SELECT DATABASE()", NoParams)>>
    ELSE <<Statement("SELECT DATABASE()", NoParams), Statement("SELECT VERSION()", NoParams)>>

\* Lines 71-84 (main line 195).
render_connection_status ==
    /\ pc = "probe"
    /\ \E o \in ProbeOutcomes :
        /\ checkedOut' = WithConnection(checkedOut, IF o = "exec_error_2" THEN "exec_error" ELSE o)
        /\ queries' = queries \o ProbeSent(o)
        /\ IF o = "ok"
           THEN /\ shown' = shown \o <<El("success", "connection"),
                                       El("metric", "connection"), El("metric", "connection")>>
                /\ pc' = "tables"
                /\ UNCHANGED <<status, raised>>
           ELSE /\ shown' = shown \o <<El("error", "connection"), El("exception", "connection")>>
                /\ raised' = raised \cup {"probe"}
                /\ pc' = AfterProbeFailure.pc
                /\ status' = AfterProbeFailure.status
    /\ UNCHANGED <<envVars, engineVars, clock, db, tablesCache, previewCache, tables, preview,
                   selected_dataset, selected_table, limit, reader, fileVars>>

\* The limits the slider offers: min_value=10, max_value=500, step=10.
SliderValues == {v \in 10..500 : v % 10 = 0}

\* The limits the model's user picks on the slider.
MaxLimit == 20

LimitChoices == {v \in SliderValues : v <= MaxLimit}

\* The sizes a table may have, and the schemas that go with them.
RowChoices(t) == IF t = "alumnos" THEN {10, 20} ELSE {0}

DbChoices ==
    UNION {{d \in [S -> {0, 10, 20}] : \A t \in S : d[t] \in RowChoices(t)} :
                S \in SUBSET TableNames}

\* Lines 197-201 and 205-208: get_tables, the section header, then either the two
\* widgets or the note that there are no tables.
ListTablesWith(limits) ==
    /\ pc = "tables"
    /\ \E o \in Outcomes :
        LET r == get_tables(tablesCache, engine, clock, db, o)
        IN  /\ checkedOut' = PoolAfter(checkedOut, r.pool)
            /\ queries' = queries \o r.sent
            /\ tablesCache' = r.cache
            /\ IF ~r.ok
               THEN /\ raised' = raised \cup {"get_tables"}
                    /\ pc' = Uncaught.pc
                    /\ status' = Uncaught.status
                    /\ UNCHANGED <<shown, tables, selected_table, limit>>
               ELSE /\ tables' = r.value
                    /\ UNCHANGED <<raised, status>>
                    /\ IF r.value # <<>>
                       THEN /\ \E t \in Range(r.value), l \in limits :
                                selected_table' = t /\ limit' = l
                            /\ shown' = shown \o <<El("subheader", "tables"),
                                    El("selectbox", "tables"), El("slider", "tables")>>
                            /\ pc' = "preview"
                       ELSE /\ shown' = shown \o <<El("subheader", "tables"), El("info", "tables")>>
                            /\ pc' = "dataset"
                            /\ UNCHANGED <<selected_table, limit>>
    /\ UNCHANGED <<envVars, engineVars, clock, db, previewCache, preview, selected_dataset,
                   reader, fileVars>>

ListTables == ListTablesWith(LimitChoices)

\* Lines 202-204: fetch_preview and its table and caption.
Preview ==
    /\ pc = "preview"
    /\ \E o \in Outcomes :
        LET r == fetch_preview(previewCache, engine, selected_table, limit, clock, db, o)
        IN  /\ checkedOut' = PoolAfter(checkedOut, r.pool)
            /\ queries' = queries \o r.sent
            /\ previewCache' = r.cache
            /\ IF ~r.ok
               THEN /\ raised' = raised \cup {"fetch_preview"}
                    /\ pc' = Uncaught.pc
                    /\ status' = Uncaught.status
                    /\ UNCHANGED <<shown, preview>>
               ELSE /\ preview' = r.value
                    /\ shown' = shown \o <<El("dataframe", "tables"), El("caption", "tables")>>
                    /\ pc' = "dataset"
                    /\ UNCHANGED <<raised, status>>
    /\ UNCHANGED <<envVars, engineVars, clock, db, tablesCache, tables, selected_dataset,
                   selected_table, limit, reader, fileVars>>

\* Lines 136-154 (main line 210).
render_dataset_preview ==
    /\ pc = "dataset"
    /\ IF selected_dataset = None
       THEN /\ shown' = shown \o <<El("subheader", "dataset"), El("info", "dataset")>>
            /\ pc' = "sql"
            /\ UNCHANGED <<reader, raised, status>>
       ELSE \E readOk \in BOOLEAN :
            /\ reader' = ReaderFor(selected_dataset)
            /\ IF readOk
               THEN /\ shown' = shown \o <<El("subheader", "dataset"),
                                           El("dataframe", "dataset"), El("caption", "dataset")>>
                    /\ pc' = "sql"
                    /\ UNCHANGED <<raised, status>>
               ELSE /\ shown' = shown \o <<El("subheader", "dataset")>> \o AfterReadFailure.els
                    /\ raised' = raised \cup {"dataset"}
                    /\ pc' = AfterReadFailure.pc
                    /\ status' = AfterReadFailure.status
    /\ UNCHANGED <<envVars, engineVars, dbVars, queries, tables, preview, selected_dataset,
                   selected_table, limit, fileVars>>

\* Lines 157-176 (main line 211); main returns after it.
render_sql_playground ==
    /\ pc = "sql"
    /\ \E pressed \in BOOLEAN, text \in QueryTexts(default_query(tables)), o \in Outcomes :
        LET head == shown \o <<El("subheader", "sql"), El("write", "sql"),
                               El("text_area", "sql"), El("button", "sql")>>
            r    == run(db, Statement(text, NoParams), o)
        IN  IF ~pressed
            THEN /\ shown' = head
                 /\ status' = "complete"
                 /\ UNCHANGED <<checkedOut, queries, raised>>
            ELSE /\ checkedOut' = WithConnection(checkedOut, o)
                 /\ queries' = queries \o r.sent
                 /\ IF r.ok
                    THEN /\ shown' = head \o <<El("dataframe", "sql"), El("success", "sql")>>
                         /\ status' = "complete"
                         /\ UNCHANGED raised
                    ELSE /\ shown' = head \o AfterQueryFailure.els
                         /\ status' = AfterQueryFailure.status
                         /\ raised' = raised \cup {"sql"}
    /\ pc' = "idle"
    /\ UNCHANGED <<envVars, engineVars, clock, db, tablesCache, previewCache, tables, preview,
                   selected_dataset, selected_table, limit, reader, fileVars>>

(***************************************************************************)
(* The world around the script.                                            *)
(***************************************************************************)
\* The steps that read the clock, the schema or the data caches are ListTables,
\* Preview and render_sql_playground.  A change of the world at any other point
\* of the script commutes with the steps up to the next of these three, so the
\* world moves only right before them: at the start of main (ScriptTop, MainStart
\* and the probe read none of it), before the preview, before the query box.
WorldMoves == pc \in {"main", "preview", "sql"}

MaxClock == 60

TickStep == 30

Live(cache, now) ==
    [k \in {c \in DOMAIN cache : now < cache[c].at + TTL} |-> cache[k]]

\* Time passes; the entries older than their time to live are gone.
Tick ==
    /\ WorldMoves
    /\ clock + TickStep <= MaxClock
    /\ clock' = clock + TickStep
    /\ tablesCache' = Live(tablesCache, clock')
    /\ previewCache' = Live(previewCache, clock')
    /\ UNCHANGED <<envVars, engineVars, db, checkedOut, pageVars, fileVars>>

\* Another client changes the schema or the rows.
DbWrite ==
    /\ WorldMoves
    /\ \E d \in DbChoices : d # db /\ db' = d
    /\ UNCHANGED <<envVars, engineVars, clock, tablesCache, previewCache, checkedOut,
                   pageVars, fileVars>>

(***************************************************************************)
(* Spec: the render cycles.                                                *)
(***************************************************************************)
DockerEnv ==
    [k \in EnvNames |->
        CASE k = "MYSQL_HOST" -> "db"
          [] k = "MYSQL_PORT" -> "3307"
          [] k = "MYSQL_DATABASE" -> "ventas"
          [] k = "MYSQL_USER" -> "ana"
          [] k = "MYSQL_PASSWORD" -> "s3cret"]

NoFile == [exists |-> FALSE, vars |-> EmptyMap]

MainFsChoices ==
    { {},
      { [path |-> <<n_DCSV>>, kind |-> "file"], [path |-> <<n_bparq>>, kind |-> "file"],
        [path |-> <<n_ctxt>>, kind |-> "file"] } }

InitPage ==
    /\ pc = "idle"
    /\ status = "idle"
    /\ shown = <<>>
    /\ queries = <<>>
    /\ raised = {}
    /\ tables = <<>>
    /\ preview = <<>>
    /\ selected_dataset = None
    /\ selected_table = ""
    /\ limit = 0
    /\ reader = "none"

InitProcess ==
    /\ creds = NoCreds
    /\ url = ""
    /\ engines = [k \in {} |-> 0]
    /\ engineLog = <<>>
    /\ engine = 0
    /\ clock = 0
    /\ tablesCache = [k \in {} |-> 0]
    /\ previewCache = [k \in {} |-> 0]
    /\ checkedOut = 0
    /\ listing = <<>>

Init ==
    /\ InitPage
    /\ InitProcess
    /\ environ = DockerEnv
    /\ dotenv = <<NoFile, NoFile, NoFile>>
    /\ db \in DbChoices
    /\ fs \in MainFsChoices
    /\ datasetDirExists = (fs # {})

Next ==
    \/ ScriptTop
    \/ MainStart
    \/ render_connection_status
    \/ ListTables
    \/ Preview
    \/ render_dataset_preview
    \/ render_sql_playground
    \/ Tick
    \/ DbWrite

Spec == Init /\ [][Next]_vars

(***************************************************************************)
(* SpecEnv: the start of a run under every environment and every set of    *)
(* .env files of the bounded sets below, and get_engine_cached applied to  *)
(* any connection string.                                                  *)
(***************************************************************************)
OsValue(k) ==
    CASE k = "MYSQL_HOST" -> "db"
      [] k = "MYSQL_PORT" -> "3307"
      [] k = "MYSQL_DATABASE" -> "ventas"
      [] k = "MYSQL_USER" -> "ana"
      [] k = "MYSQL_PASSWORD" -> ""

EnvChoices == {[k \in S |-> OsValue(k)] : S \in SUBSET EnvNames}

FilePrefix == <<"near_", "mid_", "far_">>

FileVarSets == {{}, {"MYSQL_HOST", "MYSQL_PASSWORD"}, EnvNames}

FileChoices(i) ==
    {NoFile} \cup
    {[exists |-> TRUE, vars |-> [k \in S |-> FilePrefix[i] \o OsValue(k)]] : S \in FileVarSets}

DotenvChoices == {<<a, b, c>> : a \in FileChoices(1), b \in FileChoices(2), c \in FileChoices(3)}

\* Connection strings of other credentials; the second and third are one string
\* built from two different records.
OtherCreds ==
    { [host |-> "replica", port |-> "3306", database |-> "curso", user |-> "alumno", password |-> ""],
      [host |-> "mysql", port |-> "3306", database |-> "curso", user |-> "a:b", password |-> "c"],
      [host |-> "mysql", port |-> "3306", database |-> "curso", user |-> "a", password |-> "b:c"] }

\* get_engine_cached(u) for the connection string of any credentials.
get_engine_cached_call ==
    /\ pc = "probe"
    /\ \E c \in OtherCreds \cup {creds} :
        LET u == build_connection_url(c)
            g == get_engine_cached(engines, engineLog, u)
        IN  /\ url' = u
            /\ engines' = g.store
            /\ engineLog' = g.log
            /\ engine' = g.handle
    /\ UNCHANGED <<environ, dotenv, creds, dbVars, pageVars, fileVars>>

InitEnv ==
    /\ InitPage
    /\ InitProcess
    /\ environ \in EnvChoices
    /\ dotenv \in DotenvChoices
    /\ db = [t \in TableNames |-> 0]
    /\ fs = {}
    /\ datasetDirExists = FALSE

NextEnv ==
    \/ ScriptTop
    \/ MainStart
    \/ get_engine_cached_call

SpecEnv == InitEnv /\ [][NextEnv]_vars

(***************************************************************************)
(* SpecFiles: the start of a run over every directory tree of FsChoices.   *)
(***************************************************************************)
InitFiles ==
    /\ InitPage
    /\ InitProcess
    /\ environ = DockerEnv
    /\ dotenv = <<NoFile, NoFile, NoFile>>
    /\ db = [t \in TableNames |-> 0]
    /\ datasetDirExists \in BOOLEAN
    /\ fs \in (IF datasetDirExists THEN FsChoices ELSE {{}})

NextFiles ==
    \/ ScriptTop
    \/ MainStart

SpecFiles == InitFiles /\ [][NextFiles]_vars

(***************************************************************************)
(* SpecPreview: one run up to the table preview, with every value of the   *)
(* slider and tables of the sizes below.                                   *)
(***************************************************************************)
PreviewSizes == {0, 1, 9, 10, 11, 99, 100, 101, 499, 500, 501, 1000}

ListTablesAnyLimit == ListTablesWith(SliderValues)

InitPreview ==
    /\ InitPage
    /\ InitProcess
    /\ environ = DockerEnv
    /\ dotenv = <<NoFile, NoFile, NoFile>>
    /\ db \in [TableNames -> PreviewSizes]
    /\ fs = {}
    /\ datasetDirExists = FALSE

NextPreview ==
    \/ ScriptTop
    \/ MainStart
    \/ render_connection_status
    \/ ListTablesAnyLimit
    \/ Preview

SpecPreview == InitPreview /\ [][NextPreview]_vars

(***************************************************************************)
(* The claims.                                                             *)
(***************************************************************************)
Sections(els) == {els[i][2] : i \in DOMAIN els}

ProbeStatements ==
    <<[sql |-> "SELECT DATABASE()", params |-> NoParams],
      [sql |-> "SELECT VERSION()", params |-> NoParams]>>

\* C1: a run whose connectivity probe raised a database error ends halted, not
\* crashed; its last two elements are the connectivity error and the error
\* detail; nothing of the tables, dataset-preview or query sections was drawn;
\* and the only statements sent are the probe's own, each at most once.
C1_ProbeFailureHalts ==
    "probe" \in raised =>
        /\ pc = "idle"
        /\ status = "halted"
        /\ raised = {"probe"}
        /\ Len(shown) >= 2
        /\ shown[Len(shown) - 1] = <<"error", "connection">>
        /\ shown[Len(shown)] = <<"exception", "connection">>
        /\ Sections(shown) \cap {"tables", "dataset", "sql"} = {}
        /\ IsPrefix(queries, ProbeStatements)
        /\ tables = <<>> /\ preview = <<>> /\ reader = "none"

C1_Witness ==
    /\ "probe" \in raised
    /\ status = "halted"
    /\ queries = <<[sql |-> "SELECT DATABASE()", params |-> NoParams]>>

\* C2: a run whose probe succeeded and in which get_tables or fetch_preview raised
\* a database error reports the error in the tables section and still draws the
\* dataset-preview and query sections, ending complete.
C2_ListingFailureRecovered ==
    (pc = "idle" /\ raised \cap {"get_tables", "fetch_preview"} # {}) =>
        /\ status = "complete"
        /\ <<"error", "tables">> \in Range(shown)
        /\ <<"subheader", "dataset">> \in Range(shown)
        /\ <<"subheader", "sql">> \in Range(shown)

\* C3: when the run button is pressed and the query raises, the query section
\* gets its four widgets, then an error and the error detail; what was drawn
\* before (the tables and dataset sections among it) stays as it was, and the run
\* ends complete.
C3_QueryFailureInline ==
    [][(pc = "sql" /\ pc' # "sql" /\ "sql" \in raised') =>
            /\ pc' = "idle"
            /\ status' = "complete"
            /\ shown' = shown \o <<<<"subheader", "sql">>, <<"write", "sql">>,
                                   <<"text_area", "sql">>, <<"button", "sql">>,
                                   <<"error", "sql">>, <<"exception", "sql">>>>
            /\ <<"subheader", "tables">> \in Range(shown)
            /\ <<"subheader", "dataset">> \in Range(shown)
            /\ raised' \subseteq {"sql", "dataset"}]_vars

C3_Witness ==
    /\ "sql" \in raised
    /\ status = "complete"
    /\ queries[Len(queries)].sql = "SELEC * FORM alumnos"
    /\ <<"dataframe", "tables">> \in Range(shown)
    /\ <<"dataframe", "dataset">> \in Range(shown)

CsvNames == {n_DCSV, n_acsv}

\* C4: render_dataset_preview on a selected path reads it with the CSV reader when
\* its suffix is .csv in any case and with the Parquet reader otherwise; when the
\* read raises, the section is its header, an error and the error detail, with
\* no data table, the run goes on to the query section, and what was drawn before
\* stays; a run that ended after a failed read has drawn the query section.
C4_DatasetFailureLocal ==
    [][/\ (pc = "dataset" /\ pc' # "dataset" /\ selected_dataset # None) =>
            /\ reader' = IF selected_dataset[Len(selected_dataset)] \in CsvNames
                         THEN "read_csv" ELSE "read_parquet"
            /\ "dataset" \in raised' =>
                /\ shown' = shown \o <<<<"subheader", "dataset">>, <<"error", "dataset">>,
                                       <<"exception", "dataset">>>>
                /\ pc' = "sql"
                /\ status' = "running"
       /\ (pc' = "idle" /\ "dataset" \in raised') =>
            /\ status' = "complete"
            /\ <<"subheader", "sql">> \in Range(shown')
            /\ <<"button", "sql">> \in Range(shown')
            /\ <<"dataframe", "dataset">> \notin Range(shown')]_vars

C4_Witness ==
    /\ pc = "idle"
    /\ "dataset" \in raised
    /\ selected_dataset = <<n_DCSV>>
    /\ reader = "read_csv"
    /\ <<"dataframe", "tables">> \in Range(shown)

\* C5: no connection is checked out of the pool between the steps of the script,
\* whatever happened to the calls so far.
C5_NoConnectionHeld == checkedOut = 0

C5_Witness ==
    /\ checkedOut = 0
    /\ pc = "idle"
    /\ status = "crashed"
    /\ "fetch_preview" \in raised
    /\ Len(queries) = 4

\* C7: get_tables under the handle, and fetch_preview under handle, table and
\* limit: a call less than 60 seconds after the entry of its key was stored
\* returns the stored value, sends nothing and leaves the store alone, whatever
\* the schema is by then; any other call sends its statement and, if it returns,
\* returns what the database holds now and stores it under the key with the time
\* of the call; if it raises the store is left alone.
C7_TtlCache ==
    [][/\ (pc = "tables" /\ pc' # "tables") =>
            IF engine \in DOMAIN tablesCache /\ clock - tablesCache[engine].at < 60
            THEN /\ tables' = tablesCache[engine].value
                 /\ queries' = queries
                 /\ tablesCache' = tablesCache
                 /\ "get_tables" \notin raised'
            ELSE /\ "get_tables" \in raised' => tablesCache' = tablesCache
                 /\ "get_tables" \notin raised' =>
                        /\ queries' = Append(queries, [sql |-> "SHOW TABLES", params |-> NoParams])
                        /\ tables' = SelectSeq(TableOrder, LAMBDA t : t \in DOMAIN db)
                        /\ engine \in DOMAIN tablesCache'
                        /\ tablesCache'[engine] = [value |-> tables', at |-> clock]
       /\ (pc = "preview" /\ pc' # "preview") =>
            LET key == <<engine, selected_table, limit>>
            IN  IF key \in DOMAIN previewCache /\ clock - previewCache[key].at < 60
                THEN /\ preview' = previewCache[key].value
                     /\ queries' = queries
                     /\ previewCache' = previewCache
                     /\ "fetch_preview" \notin raised'
                ELSE /\ "fetch_preview" \in raised' => previewCache' = previewCache
                     /\ "fetch_preview" \notin raised' =>
                            /\ Len(queries') = Len(queries) + 1
                            /\ selected_table \in DOMAIN db
                            /\ Len(preview') = Min(limit, db[selected_table])
                            /\ key \in DOMAIN previewCache'
                            /\ previewCache'[key] = [value |-> preview', at |-> clock]]_vars

\* A stored preview was returned although the table has another size by now.
C7_Witness ==
    /\ pc = "dataset"
    /\ clock > 0
    /\ \A i \in DOMAIN queries : queries[i].sql \in {"SELECT DATABASE()", "SELECT VERSION()"}
    /\ selected_table \in DOMAIN db
    /\ Len(preview) # Min(limit, db[selected_table])

\* C8: a fetch_preview that ran its statement and returned gives exactly the first
\* min(L, N) rows of the table, for every slider value L and table size N; the
\* statement has the table name in its text and the limit as its one parameter.
C8_PreviewRows ==
    [][(pc = "preview" /\ "fetch_preview" \notin raised' /\ queries' # queries) =>
            /\ limit \in {10 * k : k \in 1..50}
            /\ Len(preview') = (IF limit <= db[selected_table] THEN limit ELSE db[selected_table])
            /\ preview' = [i \in 1..Len(preview') |-> i]
            /\ (limit = 100 /\ db[selected_table] = 500) => Len(preview') = 100
            /\ db[selected_table] = 10 => Len(preview') = 10
            /\ queries' = Append(queries,
                    [sql |-> IF selected_table = "alumnos"
                             THEN "SELECT * FROM 'alumnos' LIMIT :limit"
                             ELSE "SELECT * FROM 'cursos' LIMIT :limit",
                     params |-> [k \in {"limit"} |-> limit]])]_vars

C8_Witness ==
    /\ pc = "dataset"
    /\ limit = 100
    /\ db[selected_table] = 500
    /\ Len(preview) = 100
    /\ Len(queries) = 4

ExpectedOrder ==
    << <<n_DCSV>>, <<n_acsv>>, <<n_bparq>>, <<n_sub, n_FParq>>, <<n_sub, n_acsv>> >>

\* C9: list_datasets returns the regular files below the directory whose
\* extension is .csv or .parquet in any case, each once, in ascending path order,
\* and the empty sequence when the directory does not exist; a.csv, b.parquet
\* and c.txt give a.csv, b.parquet.
C9_ListDatasets ==
    pc = "probe" =>
        /\ listing = SelectSeq(ExpectedOrder,
                               LAMBDA p : [path |-> p, kind |-> "file"] \in fs)
        /\ ~datasetDirExists => listing = <<>>
        /\ \A i, j \in DOMAIN listing : i # j => listing[i] # listing[j]
        /\ fs = {[path |-> <<n_acsv>>, kind |-> "file"], [path |-> <<n_bparq>>, kind |-> "file"],
                 [path |-> <<n_ctxt>>, kind |-> "file"]}
              => listing = << <<n_acsv>>, <<n_bparq>> >>

C9_Witness ==
    /\ pc = "probe"
    /\ Cardinality(fs) = 9
    /\ Len(listing) = 5
    /\ listing[1] = <<n_DCSV>>
    /\ listing[5] = <<n_sub, n_acsv>>

FirstExisting(files) ==
    IF \E i \in DOMAIN files : files[i].exists
    THEN CHOOSE i \in DOMAIN files :
            files[i].exists /\ \A j \in DOMAIN files : files[j].exists => i <= j
    ELSE 0

\* C10: get_db_credentials returns the five fields, each the value of its
\* environment variable when set and its default otherwise, the defaults being
\* mysql, 3306, curso, alumno and the empty string; the start-up load changes no
\* variable that is set and sets the others from the first candidate file that
\* exists and from no other.
C10_Credentials ==
    [][/\ (pc = "main" /\ pc' = "probe") =>
            /\ DOMAIN creds' = {"host", "port", "database", "user", "password"}
            /\ creds'.host = (IF "MYSQL_HOST" \in DOMAIN environ THEN environ["MYSQL_HOST"] ELSE "mysql")
            /\ creds'.port = (IF "MYSQL_PORT" \in DOMAIN environ THEN environ["MYSQL_PORT"] ELSE "3306")
            /\ creds'.database =
                  (IF "MYSQL_DATABASE" \in DOMAIN environ THEN environ["MYSQL_DATABASE"] ELSE "curso")
            /\ creds'.user = (IF "MYSQL_USER" \in DOMAIN environ THEN environ["MYSQL_USER"] ELSE "alumno")
            /\ creds'.password =
                  (IF "MYSQL_PASSWORD" \in DOMAIN environ THEN environ["MYSQL_PASSWORD"] ELSE "")
       /\ (pc = "idle" /\ pc' = "main") =>
            LET f == FirstExisting(dotenv)
            IN  /\ \A k \in DOMAIN environ : k \in DOMAIN environ' /\ environ'[k] = environ[k]
                /\ \A k \in (DOMAIN environ') \ (DOMAIN environ) :
                        f # 0 /\ k \in DOMAIN dotenv[f].vars /\ environ'[k] = dotenv[f].vars[k]
                /\ f # 0 => DOMAIN dotenv[f].vars \subseteq DOMAIN environ']_vars

C10_Witness ==
    /\ pc = "probe"
    /\ environ = EmptyMap
    /\ dotenv[1] = NoFile /\ dotenv[2].exists /\ dotenv[3].exists
    /\ creds = [host |-> "mysql", port |-> "3306", database |-> "curso",
                user |-> "alumno", password |-> ""]

\* C6: the store of get_engine_cached only grows and never changes a handle; a
\* call returns the handle stored for its connection string, the one it already
\* had if it had one; create_engine runs at most once per connection string; two
\* connection strings never share a handle.
C6_EngineCache ==
    [][/\ \A u \in DOMAIN engines : u \in DOMAIN engines' /\ engines'[u] = engines[u]
       /\ (engines' # engines \/ engine' # engine \/ url' # url) =>
            /\ url' \in DOMAIN engines'
            /\ engine' = engines'[url']
       /\ \A i, j \in DOMAIN engineLog' : i # j => engineLog'[i] # engineLog'[j]
       /\ \A u, v \in DOMAIN engines' : u # v => engines'[u] # engines'[v]]_vars

C6_Witness ==
    /\ Cardinality(DOMAIN engines) = 3
    /\ Len(engineLog) = 3
    /\ url = engineLog[1]
    /\ engine = 1

====
